---- MODULE Spec2Model ----
(***************************************************************************)
(* Ytranscriptor (src/main.py): the batch pipeline that lists a channel's  *)
(* videos, and for each one fetches its details, checks for an existing    *)
(* output file and for a manual caption, downloads the audio, transcribes  *)
(* it, formats the transcript with an LLM and writes transcriptions/<i>.md.*)
(* The model follows one process through any number of consecutive runs    *)
(* over the same two directories.                                          *)
(***************************************************************************)
EXTENDS Integers, Sequences, FiniteSets, TLC

\* ---------------------------------------------------------------- bounds
\* The largest number of catalog entries the remote service returns in a run.
MaxVideos == 2
\* The largest number of caption tracks the remote service lists for a video.
MaxTracks == 2
\* The longest caption list handed to check_for_transcription on its own.
MaxCaptionList == 4

\* ------------------------------------------------------------ value sets
VideoIds == {"vA", "vB"}
Indices == 1..MaxVideos

\* Python's None, for each kind of value that may be None in the code
None == "None"
NoDetails == [id |-> None, snippet |-> [title |-> None]]
NoPath == [dir |-> None, name |-> <<>>]
NoText == <<>>
\* What a directory holds under a name no file has
NoFile == <<>>

\* f"{index}" for the indices of the model
Digits == <<"1", "2", "3", "4", "5", "6", "7", "8", "9">>

\* The last component of a path is a sequence of characters.
AudioName(i) == <<Digits[i], ".", "m", "p", "3">>
MdName(i) == <<Digits[i], ".", "m", "d">>

\* download_audio: os.path.join("audio_files", f"{index}") + ".mp3"
audio_file_path_of(i) == [dir |-> "audio_files", name |-> AudioName(i)]
\* process_video: os.path.join("transcriptions", f"{index}.md")
file_path_of(i) == [dir |-> "transcriptions", name |-> MdName(i)]

\* What the remote services compute (uninterpreted, but not the identity).
Audio(video_id) == <<"mp3", video_id>>
Whisper(audio) == <<"text", audio[2]>>
Llm(prompt) == <<"markdown", prompt[2]>>
Prompt(transcription) == <<"Edit the following transcription", transcription[2]>>
Truncated == <<"truncated">>

\* Catalogs: the lists of video ids the search may answer, at most MaxVideos long
\* (the code does not look at the ids, and nothing keeps the service from
\* listing one twice).
RECURSIVE SeqsUpTo(_, _)
SeqsUpTo(S, n) ==
    IF n = 0 THEN {<<>>}
    ELSE LET shorter == SeqsUpTo(S, n - 1)
         IN shorter \cup {Append(s, x) : s \in {t \in shorter : Len(t) = n - 1}, x \in S}
Catalogs == SeqsUpTo(VideoIds, MaxVideos)

TrackKinds == {"ASR", "standard"}
CaptionItems == {[k \in DOMAIN s |-> [snippet |-> [trackKind |-> s[k]]]] :
                    s \in SeqsUpTo(TrackKinds, MaxTracks)}
DetailsItems(video_id) == {<<>>, <<[id |-> video_id, snippet |-> [title |-> video_id]]>>}

Environments == [GROQ_API_KEY : BOOLEAN, YT_API_KEY : BOOLEAN, CHANNEL_ID : BOOLEAN]

CallNames == {"details", "captions", "extract", "stt", "llm", "write"}
NoCalls == [c \in CallNames |-> 0]

VARIABLES
    environ,          \* os.environ: which of the three settings are present
    dirs,             \* whether audio_files/ and transcriptions/ exist
    audio_files,      \* audio_files/: file name -> content or NoFile
    transcriptions,   \* transcriptions/: file name -> content or NoFile
    remote,           \* the channel's video list at the remote service, this run
    video_ids,        \* get_video_ids: the list collected so far
    index,            \* main: the enumerate() counter
    pc,               \* where the process is
    status,           \* how the run ended, "running" while it has not
    exit_code,        \* the process exit code, -1 while running
    audio_file_path,  \* process_video local
    transcription,    \* process_video local
    formatted_transcription, \* process_video local
    calls,            \* this run: index -> external calls made for it
    outcome,          \* this run: index -> how process_video left, "none" before
    passed,           \* this run: the (index, video_id) pairs handed to process_video
    seen,             \* this run: index -> what the details and caption calls answered
    run_calls,        \* this run: makedirs done, search pages requested, search errors
    transcriptions0,  \* transcriptions/ as it was when the run started
    audio_files0,     \* audio_files/ as it was when the run started
    t_input,          \* transcribe_audio harness: the call's inputs
    t_result,         \* transcribe_audio harness: the call's result, NotCalled before
    c_items,          \* check_for_transcription harness: the caption list answered
    c_result,         \* check_for_transcription harness: "True"/"False", "not called" before
    world             \* the channel as the remote services hold it, where it is kept fixed

pvars == <<environ, dirs, audio_files, transcriptions, remote, video_ids, index, pc,
           status, exit_code, audio_file_path, transcription, formatted_transcription,
           calls, outcome, passed, seen, run_calls, transcriptions0, audio_files0>>
tvars == <<t_input, t_result>>
cvars == <<c_items, c_result>>
hvars == <<tvars, cvars, world>>
vars == <<pvars, hvars>>


\* ------------------------------------------------------- pure functions

\* get_video_details: items[0] if items else None
get_video_details(items) == IF items # <<>> THEN items[1] ELSE NoDetails

\* (mutant) only the first track is looked at
check_for_transcription_FirstOnly(items) ==
    items # <<>> /\ items[1].snippet.trackKind # "ASR"
\* check_for_transcription: True at the first track whose kind is not "ASR"
RECURSIVE check_for_transcription(_)
check_for_transcription(items) ==
    IF items = <<>> THEN FALSE
    ELSE IF items[1].snippet.trackKind = "ASR" THEN check_for_transcription(Tail(items))
    ELSE TRUE

\* str.lower() on the characters the model's paths use
LowerChar(c) ==
    CASE c = "M" -> "m" [] c = "P" -> "p" [] c = "W" -> "w" [] c = "A" -> "a"
      [] c = "V" -> "v" [] c = "F" -> "f" [] c = "L" -> "l" [] c = "C" -> "c"
      [] c = "T" -> "t" [] c = "X" -> "x" [] c = "D" -> "d"
      [] OTHER -> c
\* (mutant) the suffix compared as written, without .lower()
Lower_Identity(s) == s
Lower(s) == [k \in DOMAIN s |-> LowerChar(s[k])]

\* str.rfind("."), 1-based; 0 when there is none
RFindDot(name) ==
    LET dots == {k \in DOMAIN name : name[k] = "."}
    IN IF dots = {} THEN 0 ELSE CHOOSE k \in dots : \A j \in dots : j <= k

\* pathlib.PurePath.suffix: the last dot and what follows it, unless the dot
\* leads or ends the name
Suffix(path) ==
    LET name == path.name
        i == RFindDot(name)
    IN IF 1 < i /\ i < Len(name) THEN SubSeq(name, i, Len(name)) ELSE <<>>

audio_file_types ==
    {<<".", "m", "p", "3">>, <<".", "w", "a", "v">>, <<".", "m", "4", "a">>,
     <<".", "f", "l", "a", "c">>}

\* transcribe_audio(audio_file_path): content is what the file holds (NoFile when
\* it cannot be opened), status_code what the service answers if it is asked.
\* raised: the exception that leaves the function, None when it returns text.
transcribe_audio(path, content, status_code) ==
    IF ~(Lower(Suffix(path)) \in audio_file_types)
    THEN [raised |-> "ValueError", text |-> NoText, opened |-> 0, posts |-> 0]
    ELSE IF content = NoFile
    THEN [raised |-> "FileNotFoundError", text |-> NoText, opened |-> 1, posts |-> 0]
    ELSE IF status_code = 200
    THEN [raised |-> None, text |-> Whisper(content), opened |-> 1, posts |-> 1]
    ELSE [raised |-> "Exception", text |-> NoText, opened |-> 1, posts |-> 1]

\* (mutant) download_audio without its os.path.exists check
download_audio_NoCache(files, video_id, i, ydl_ok) ==
    LET path == audio_file_path_of(i)
    IN IF ydl_ok
       THEN [ret |-> path, files |-> [files EXCEPT ![path.name] = Audio(video_id)],
             extractor |-> 1]
       ELSE [ret |-> NoPath, files |-> files, extractor |-> 1]

\* (mutant) download_audio returning the path from its except branch too
download_audio_PathOnFail(files, video_id, i, ydl_ok) ==
    LET path == audio_file_path_of(i)
    IN IF files[path.name] # NoFile
       THEN [ret |-> path, files |-> files, extractor |-> 0]
       ELSE IF ydl_ok
       THEN [ret |-> path, files |-> [files EXCEPT ![path.name] = Audio(video_id)],
             extractor |-> 1]
       ELSE [ret |-> path, files |-> files, extractor |-> 1]

\* (mutant) download_audio reusing the file only if it is this video's audio
download_audio_CheckId(files, video_id, i, ydl_ok) ==
    LET path == audio_file_path_of(i)
    IN IF files[path.name] = Audio(video_id)
       THEN [ret |-> path, files |-> files, extractor |-> 0]
       ELSE IF ydl_ok
       THEN [ret |-> path, files |-> [files EXCEPT ![path.name] = Audio(video_id)],
             extractor |-> 1]
       ELSE [ret |-> NoPath, files |-> files, extractor |-> 1]

\* download_audio(video_id, index) on the directory `files`; ydl_ok is whether the
\* extractor succeeds if it is run.
download_audio(files, video_id, i, ydl_ok) ==
    LET path == audio_file_path_of(i)
    IN IF files[path.name] # NoFile
       THEN [ret |-> path, files |-> files, extractor |-> 0]
       ELSE IF ydl_ok
       THEN [ret |-> path, files |-> [files EXCEPT ![path.name] = Audio(video_id)],
             extractor |-> 1]
       ELSE [ret |-> NoPath, files |-> files, extractor |-> 1]

\* format_transcription / query_groq: the completion, returned unmodified
format_transcription(text) == Llm(Prompt(text))

\* ------------------------------------------------------------ the process

EmptyDir(names) == [n \in names |-> NoFile]
NothingSeen == [details |-> "none", captions |-> "none"]
NoRunCalls == [makedirs |-> 0, search |-> 0, search_errors |-> 0]

\* What a run starts from, given the two directories as the previous runs left
\* them.
StartRun(afiles, tfiles) ==
    /\ remote' = <<>>
    /\ audio_files' = afiles
    /\ transcriptions' = tfiles
    /\ audio_files0' = afiles
    /\ transcriptions0' = tfiles
    /\ video_ids' = <<>>
    /\ index' = 0
    /\ pc' = "startup"
    /\ status' = "running"
    /\ exit_code' = -1
    /\ audio_file_path' = NoPath
    /\ transcription' = NoText
    /\ formatted_transcription' = NoText
    /\ calls' = [i \in Indices |-> NoCalls]
    /\ outcome' = [i \in Indices |-> "none"]
    /\ passed' = <<>>
    /\ seen' = [i \in Indices |-> NothingSeen]
    /\ run_calls' = NoRunCalls

NotCalled == [raised |-> "not called", text |-> NoText, opened |-> 0, posts |-> 0]

\* The process in its first run: nothing on disk yet.
PInit ==
    /\ environ \in Environments
    /\ remote = <<>>
    /\ dirs = FALSE
    /\ audio_files = EmptyDir({AudioName(i) : i \in Indices})
    /\ transcriptions = EmptyDir({MdName(i) : i \in Indices})
    /\ audio_files0 = audio_files
    /\ transcriptions0 = transcriptions
    /\ video_ids = <<>>
    /\ index = 0
    /\ pc = "startup"
    /\ status = "running"
    /\ exit_code = -1
    /\ audio_file_path = NoPath
    /\ transcription = NoText
    /\ formatted_transcription = NoText
    /\ calls = [i \in Indices |-> NoCalls]
    /\ outcome = [i \in Indices |-> "none"]
    /\ passed = <<>>
    /\ seen = [i \in Indices |-> NothingSeen]
    /\ run_calls = NoRunCalls

\* The transcribe_audio harness at rest.
TQuiet ==
    /\ t_input = [stem |-> <<>>, ext |-> <<>>, path |-> audio_file_path_of(1),
                  content |-> NoFile, status_code |-> 200]
    /\ t_result = NotCalled

\* The check_for_transcription harness at rest.
CQuiet ==
    /\ c_items = <<>>
    /\ c_result = "not called"

\* Nothing is fixed about the channel: every call's answer is free.
AnyWorld == [catalog |-> <<>>, attr |-> [v \in VideoIds |-> "any"]]

Init == PInit /\ TQuiet /\ CQuiet /\ world = AnyWorld

\* sys.exit(code), or an exception nobody catches (a traceback, exit code 1)
Exit(how, code) ==
    /\ pc' = "exit"
    /\ status' = how
    /\ exit_code' = code

Called(c, n) == calls' = [calls EXCEPT ![index][c] = @ + n]

\* lines 12-28: the two key checks, channel_id read unchecked, the two makedirs
Startup ==
    /\ pc = "startup"
    /\ IF ~environ.GROQ_API_KEY \/ ~environ.YT_API_KEY
       THEN /\ Exit("FatalStartup", 1)
            /\ UNCHANGED <<dirs, run_calls>>
       ELSE /\ dirs' = TRUE
            /\ run_calls' = [run_calls EXCEPT !.makedirs = 1]
            /\ pc' = "get_video_ids"
            /\ UNCHANGED <<status, exit_code>>
    /\ UNCHANGED <<environ, audio_files, transcriptions, remote, video_ids, index,
                   audio_file_path, transcription, formatted_transcription, calls,
                   outcome, passed, seen, transcriptions0, audio_files0, hvars>>

\* (mutant) main's loop left after its first turn
NextVideo_BreakAfterFirst(ids, i) ==
    IF i = 0 /\ i < Len(ids)
    THEN /\ index' = i + 1
         /\ pc' = "process_video"
         /\ UNCHANGED <<status, exit_code>>
    ELSE /\ index' = i
         /\ Exit("ok", 0)

\* main's for loop: the next (index, video_id) of enumerate(video_ids, start=1),
\* or the end of main
NextVideo(ids, i) ==
    IF i < Len(ids)
    THEN /\ index' = i + 1
         /\ pc' = "process_video"
         /\ UNCHANGED <<status, exit_code>>
    ELSE /\ index' = i
         /\ Exit("ok", 0)

\* (mutant) the error is swallowed and main goes on with the ids collected so far
CatalogError_Continue ==
    /\ NextVideo(video_ids, 0)
    /\ UNCHANGED video_ids

\* main lines 202-204: HttpError from get_video_ids is printed, then sys.exit(1)
CatalogError ==
    /\ Exit("FatalCatalog", 1)
    /\ UNCHANGED <<video_ids, index>>

\* get_video_ids, one turn of its while loop: request.execute() raises HttpError
\* or answers the next page, a non-empty run of the remaining entries (an empty
\* page for an empty channel); list_next is None after the last page. The first
\* request fixes the list the service pages through in this run.
GetVideoIdsPage ==
    /\ pc = "get_video_ids"
    /\ \E catalog \in (IF run_calls.search = 0 THEN Catalogs ELSE {remote}) :
         /\ remote' = catalog
         /\ \/ /\ run_calls' = [run_calls EXCEPT !.search = @ + 1, !.search_errors = @ + 1]
               /\ CatalogError
            \/ /\ run_calls' = [run_calls EXCEPT !.search = @ + 1]
               /\ \E n \in 0..(Len(catalog) - Len(video_ids)) :
                    /\ n = 0 => Len(catalog) = Len(video_ids)
                    /\ LET ids == video_ids \o
                                  SubSeq(catalog, Len(video_ids) + 1, Len(video_ids) + n)
                       IN /\ video_ids' = ids
                          /\ IF Len(ids) < Len(catalog)
                             THEN UNCHANGED <<pc, status, exit_code, index>>
                             ELSE NextVideo(ids, 0)
    /\ UNCHANGED <<environ, dirs, audio_files, transcriptions,
                   audio_file_path, transcription, formatted_transcription, calls,
                   outcome, passed, seen, transcriptions0, audio_files0, hvars>>

\* process_video returns (any of its return statements, or falling off its end)
Return(how) ==
    /\ outcome' = [outcome EXCEPT ![index] = how]
    /\ NextVideo(video_ids, index)

\* process_video goes on to its next statement
Goto(label) ==
    /\ pc' = label
    /\ UNCHANGED <<outcome, index, status, exit_code>>

\* (mutant) main wraps process_video in a try and goes on with the next video
Unhandled_Caught(how) == Return(how)

\* an exception leaves process_video; main does not catch it
Unhandled(how) ==
    /\ outcome' = [outcome EXCEPT ![index] = how]
    /\ Exit("Unhandled", 1)
    /\ UNCHANGED index

\* (mutant) no return when the details are missing
DetailsGate_FallThrough(video_details) == Goto("exists")

\* process_video's locals after a step that gives them the values a, t, f: they
\* are gone once process_video has returned or raised.
Locals(a, t, f) ==
    IF pc' \in {"process_video", "exit"}
    THEN /\ audio_file_path' = NoPath
         /\ transcription' = NoText
         /\ formatted_transcription' = NoText
    ELSE /\ audio_file_path' = a
         /\ transcription' = t
         /\ formatted_transcription' = f
KeepLocals == Locals(audio_file_path, transcription, formatted_transcription)

\* process_video lines 149-151
DetailsGate(video_details) ==
    IF video_details = NoDetails THEN Return("not_found") ELSE Goto("exists")

\* (mutant) the existing output file does not stop the video
ExistsGate_NoSkip(exists) == Goto("check_for_transcription")

\* process_video lines 160-164
ExistsGate(exists) ==
    IF exists THEN Return("output_exists") ELSE Goto("check_for_transcription")

\* (mutant) a manual caption does not stop the video
CaptionGate_Ignore(has_transcription) == Goto("download_audio")

\* process_video lines 167-171
CaptionGate(has_transcription) ==
    IF has_transcription THEN Return("manual_caption") ELSE Goto("download_audio")

\* process_video lines 174-176
AudioGate(path) ==
    IF path = NoPath THEN Return("audio_failed") ELSE Goto("transcribe_audio")

\* (mutant) the except branch does not return
TranscribeGate_NoReturn(raised) == Goto("format_transcription")

\* process_video lines 178-182: try / except Exception / return
TranscribeGate(raised) ==
    IF raised # None THEN Return("transcription_failed") ELSE Goto("format_transcription")

\* (mutant) no try around the write
WriteGate_Raise(failed) ==
    IF failed THEN Unhandled("write_failed") ELSE Return("saved")

\* process_video lines 186-191: try / except Exception, then the function ends
WriteGate(failed) ==
    IF failed THEN Return("write_failed") ELSE Return("saved")

\* process_video lines 148-151 (get_video_details lines 49-52)
GetVideoDetails ==
    /\ pc = "process_video"
    /\ passed' = Append(passed, [index |-> index, video_id |-> video_ids[index]])
    /\ Called("details", 1)
    /\ \/ /\ seen' = [seen EXCEPT ![index].details = "error"]
          /\ Unhandled("details_error")
       \/ \E items \in DetailsItems(video_ids[index]) :
            /\ seen' = [seen EXCEPT ![index].details =
                           IF items = <<>> THEN "not_found" ELSE "found"]
            /\ DetailsGate(get_video_details(items))
    /\ KeepLocals
    /\ UNCHANGED <<environ, dirs, audio_files, transcriptions, remote, video_ids,
                   run_calls, transcriptions0, audio_files0, hvars>>

\* process_video lines 153-164
OutputExists ==
    /\ pc = "exists"
    /\ ExistsGate(transcriptions[file_path_of(index).name] # NoFile)
    /\ KeepLocals
    /\ UNCHANGED <<environ, dirs, audio_files, transcriptions, remote, video_ids, calls,
                   passed, seen, run_calls, transcriptions0, audio_files0, hvars>>

\* process_video lines 166-171 (check_for_transcription lines 57-63)
CheckForTranscription ==
    /\ pc = "check_for_transcription"
    /\ Called("captions", 1)
    /\ \/ /\ seen' = [seen EXCEPT ![index].captions = "error"]
          /\ Unhandled("captions_error")
       \/ \E items \in CaptionItems :
            /\ seen' = [seen EXCEPT ![index].captions =
                           IF \E k \in DOMAIN items : items[k].snippet.trackKind # "ASR"
                           THEN "manual" ELSE "no manual"]
            /\ CaptionGate(check_for_transcription(items))
    /\ KeepLocals
    /\ UNCHANGED <<environ, dirs, audio_files, transcriptions, remote, video_ids,
                   passed, run_calls, transcriptions0, audio_files0, hvars>>

\* process_video lines 173-176
DownloadAudio ==
    /\ pc = "download_audio"
    /\ \E ydl_ok \in BOOLEAN :
         LET r == download_audio(audio_files, video_ids[index], index, ydl_ok)
         IN /\ audio_files' = r.files
            /\ Called("extract", r.extractor)
            /\ AudioGate(r.ret)
            /\ Locals(r.ret, transcription, formatted_transcription)
    /\ UNCHANGED <<environ, dirs, transcriptions, remote, video_ids,
                   passed, seen, run_calls, transcriptions0, audio_files0, hvars>>

\* process_video lines 178-182: every exception of transcribe_audio is caught
TranscribeAudio ==
    /\ pc = "transcribe_audio"
    /\ \E status_code \in {200, 500} :
         LET r == transcribe_audio(audio_file_path, audio_files[audio_file_path.name],
                                   status_code)
         IN /\ Called("stt", r.posts)
            /\ TranscribeGate(r.raised)
            /\ Locals(audio_file_path, r.text, formatted_transcription)
    /\ UNCHANGED <<environ, dirs, audio_files, transcriptions, remote, video_ids,
                   passed, seen, run_calls, transcriptions0, audio_files0, hvars>>

\* process_video line 184: query_groq raises, or returns the completion
FormatTranscription ==
    /\ pc = "format_transcription"
    /\ Called("llm", 1)
    /\ \/ /\ Unhandled("format_error")
          /\ KeepLocals
       \/ /\ Goto("write")
          /\ Locals(audio_file_path, transcription, format_transcription(transcription))
    /\ UNCHANGED <<environ, dirs, audio_files, transcriptions, remote, video_ids,
                   passed, seen, run_calls, transcriptions0, audio_files0, hvars>>

\* process_video lines 186-191: open(file_path, "w") fails and leaves nothing, or
\* creates the file; f.write then fails and leaves it truncated, or fills it
WriteOutput ==
    /\ pc = "write"
    /\ Called("write", 1)
    /\ LET name == file_path_of(index).name
       IN \/ /\ UNCHANGED transcriptions
             /\ WriteGate(TRUE)
          \/ /\ transcriptions' = [transcriptions EXCEPT ![name] = Truncated]
             /\ WriteGate(TRUE)
          \/ /\ transcriptions' = [transcriptions EXCEPT ![name] = formatted_transcription]
             /\ WriteGate(FALSE)
    /\ KeepLocals
    /\ UNCHANGED <<environ, dirs, audio_files, remote, video_ids,
                   passed, seen, run_calls, transcriptions0, audio_files0, hvars>>

\* The process has ended; the program is started again later, over the same
\* directories and in the same environment.
NextRun ==
    /\ pc = "exit"
    /\ StartRun(audio_files, transcriptions)
    /\ UNCHANGED <<environ, dirs, hvars>>

Next ==
    \/ Startup
    \/ GetVideoIdsPage
    \/ GetVideoDetails
    \/ OutputExists
    \/ CheckForTranscription
    \/ DownloadAudio
    \/ TranscribeAudio
    \/ FormatTranscription
    \/ WriteOutput
    \/ NextRun

Spec == Init /\ [][Next]_vars

\* ------------------------------------------- transcribe_audio on its own

\* File names stem \o ext. A name's extension is ext when the stem is not empty
\* (a name that is nothing but ".mp3" is a dot file without extension).
Stems == {<<>>, <<"a">>, <<"a", ".", "b">>}
AllowedExts ==
    {<<".", "m", "p", "3">>, <<".", "M", "P", "3">>, <<".", "M", "p", "3">>,
     <<".", "w", "a", "v">>, <<".", "W", "A", "V">>,
     <<".", "m", "4", "a">>, <<".", "M", "4", "A">>,
     <<".", "f", "l", "a", "c">>, <<".", "F", "L", "A", "C">>}
OtherExts ==
    {<<>>, <<".">>, <<".", "t", "x", "t">>, <<".", "T", "X", "T">>, <<".", "m", "p", "4">>,
     <<".", "m", "d">>, <<".", "m", "p">>, <<"m", "p", "3">>}

TInputs ==
    {[stem |-> st, ext |-> e, path |-> [dir |-> "audio_files", name |-> st \o e],
      content |-> c, status_code |-> sc] :
        st \in Stems, e \in AllowedExts \cup OtherExts,
        c \in {NoFile, Audio("vA")}, sc \in {200, 500}}

TInit ==
    /\ PInit
    /\ environ = [GROQ_API_KEY |-> TRUE, YT_API_KEY |-> TRUE, CHANNEL_ID |-> TRUE]
    /\ t_input \in TInputs
    /\ t_result = NotCalled
    /\ CQuiet
    /\ world = AnyWorld

\* one call transcribe_audio(t_input.path)
TCall ==
    /\ t_result = NotCalled
    /\ t_result' = transcribe_audio(t_input.path, t_input.content, t_input.status_code)
    /\ UNCHANGED <<t_input, pvars, cvars, world>>

TNext == TCall

SpecT == TInit /\ [][TNext]_vars

\* ------------------------------------ check_for_transcription on its own

\* The track kinds the captions resource documents, in lists of up to
\* MaxCaptionList tracks.
CaptionKinds == {"ASR", "standard", "forced"}
CInputs == {[k \in DOMAIN s |-> [snippet |-> [trackKind |-> s[k]]]] :
                s \in SeqsUpTo(CaptionKinds, MaxCaptionList)}

CInit ==
    /\ PInit
    /\ environ = [GROQ_API_KEY |-> TRUE, YT_API_KEY |-> TRUE, CHANNEL_ID |-> TRUE]
    /\ TQuiet
    /\ c_items \in CInputs
    /\ c_result = "not called"
    /\ world = AnyWorld

\* one call check_for_transcription(youtube, video_id) answered with c_items
CCall ==
    /\ c_result = "not called"
    /\ c_result' = IF check_for_transcription(c_items) THEN "True" ELSE "False"
    /\ UNCHANGED <<c_items, pvars, tvars, world>>

CNext == CCall

SpecC == CInit /\ [][CNext]_vars

\* ------------------------------------- repeated runs over a fixed channel

\* The channel does not change from run to run: the catalog lists the same
\* videos in the same order, and a video either has no metadata, or has a
\* manual caption track, or has metadata and no manual caption ("ok"). Calls
\* may still fail.
Worlds == [catalog : Catalogs, attr : [VideoIds -> {"ok", "no_metadata", "manual"}]]
AttrAt(k) == IF k <= Len(world.catalog) THEN world.attr[world.catalog[k]] ELSE "absent"
Consistent ==
    /\ remote = IF run_calls.search = 0 THEN <<>> ELSE world.catalog
    /\ \A k \in Indices :
        /\ seen[k].details \in
              {"none", "error", IF AttrAt(k) = "no_metadata" THEN "not_found" ELSE "found"}
        /\ seen[k].captions \in
              {"none", "error", IF AttrAt(k) = "manual" THEN "manual" ELSE "no manual"}

LInit ==
    /\ PInit
    /\ environ = [GROQ_API_KEY |-> TRUE, YT_API_KEY |-> TRUE, CHANNEL_ID |-> TRUE]
    /\ TQuiet
    /\ CQuiet
    /\ world \in Worlds

\* the three calls that read the channel, answered from it
FixedGetVideoIdsPage == GetVideoIdsPage /\ Consistent'
FixedGetVideoDetails == GetVideoDetails /\ Consistent'
FixedCheckForTranscription == CheckForTranscription /\ Consistent'

LNext ==
    \/ Startup
    \/ FixedGetVideoIdsPage
    \/ FixedGetVideoDetails
    \/ OutputExists
    \/ FixedCheckForTranscription
    \/ DownloadAudio
    \/ TranscribeAudio
    \/ FormatTranscription
    \/ WriteOutput
    \/ NextRun

\* A search page is answered without error when n entries are collected.
PageOk(n) ==
    /\ FixedGetVideoIdsPage
    /\ Len(video_ids) = n
    /\ run_calls'.search_errors = run_calls.search_errors
\* The step of process_video at p, for the video at index k, does not fail.
CallFailures == {"details_error", "captions_error", "audio_failed",
                 "transcription_failed", "format_error", "write_failed"}
StepOk(k, p) ==
    /\ LNext
    /\ pc = p
    /\ index = k
    /\ outcome'[k] \notin CallFailures
\* The two calls made for a video in every run, and the four made only while
\* its output file is missing.
LookupSteps == {"process_video", "check_for_transcription"}
PipelineSteps == {"download_audio", "transcribe_audio", "format_transcription", "write"}
PipelineStepOk(p) == \E k \in Indices : StepOk(k, p)

\* The program is run again and again and no step hangs; a call that is made
\* again and again succeeds again and again: each search page, each video's
\* details and caption listing, and each kind of pipeline call.
Fairness ==
    /\ WF_vars(LNext)
    /\ \A n \in 0..(MaxVideos - 1) : SF_vars(PageOk(n))
    /\ \A k \in Indices : \A p \in LookupSteps : SF_vars(StepOk(k, p))
    /\ \A p \in PipelineSteps : SF_vars(PipelineStepOk(p))

SpecL == LInit /\ [][LNext]_vars /\ Fairness

\* ----------------------------------------------------------------- claims

OutputName(k) == file_path_of(k).name
AudioFileName(k) == audio_file_path_of(k).name
OnlyDetails == [NoCalls EXCEPT !["details"] = 1]
NoCostlyCalls(k) ==
    /\ calls[k]["extract"] = 0
    /\ calls[k]["stt"] = 0
    /\ calls[k]["llm"] = 0
    /\ calls[k]["write"] = 0
FilesUntouched(k) ==
    /\ audio_files[AudioFileName(k)] = audio_files0[AudioFileName(k)]
    /\ transcriptions[OutputName(k)] = transcriptions0[OutputName(k)]
\* the i-th call of process_video got index i and the i-th catalog entry
PassedInOrder ==
    \A i \in 1..Len(passed) : passed[i] = [index |-> i, video_id |-> video_ids[i]]

C2_ManualCaptionExclusivity ==
    \A k \in Indices :
        seen[k].captions = "manual" =>
            /\ NoCostlyCalls(k)
            /\ outcome[k] = "manual_caption"
            /\ FilesUntouched(k)

C2_Witness ==
    \E k \in Indices :
        /\ seen[k].captions = "manual"
        /\ outcome[k] = "manual_caption"
        /\ audio_files[AudioFileName(k)] = NoFile
        /\ transcriptions[OutputName(k)] = NoFile

GateFailures ==
    {"not_found", "manual_caption", "audio_failed", "transcription_failed",
     "format_error", "write_failed"}

\* C3: when the run has ended, every video after one that failed at a gate
\* (metadata not found, manual caption, audio, transcription, formatting, write)
\* has been attempted.
C3_FailureIsolation ==
    pc = "exit" =>
        \A k \in 1..Len(video_ids) :
            outcome[k] \in GateFailures =>
                \A j \in (k + 1)..Len(video_ids) : outcome[j] # "none"

\* C4: a remote error of the details call or of the caption listing for video k
\* does not leave the per-video step: the run is not ended by it, and the videos
\* after k are processed.
C4_RemoteErrorsNonFatal ==
    \A k \in Indices :
        (seen[k].details = "error" \/ seen[k].captions = "error") =>
            /\ status # "Unhandled"
            /\ pc = "exit" => \A j \in (k + 1)..Len(video_ids) : outcome[j] # "none"

\* C5: when a run that got its catalog has ended, the per-video step was called
\* with exactly the indices 1..N, once each, the i-th catalog entry with index i,
\* however the earlier videos ended.
C5_IndexContiguity ==
    (pc = "exit" /\ status \notin {"FatalStartup", "FatalCatalog"}) =>
        passed = [i \in 1..Len(video_ids) |-> [index |-> i, video_id |-> video_ids[i]]]

\* C6: a call of download_audio that finds audio_files/<index>.mp3 returns that
\* path, runs no extractor and leaves the directory as it is; the extractor runs
\* only in a call of download_audio that finds no such file.
C6_AudioCache ==
    /\ [][(pc = "download_audio" /\ audio_files[AudioFileName(index)] # NoFile) =>
            /\ audio_file_path' = audio_file_path_of(index)
            /\ calls'[index]["extract"] = calls[index]["extract"]
            /\ audio_files' = audio_files
            /\ pc' = "transcribe_audio"]_vars
    /\ [][(\E k \in Indices : calls'[k]["extract"] > calls[k]["extract"]) =>
            /\ pc = "download_audio"
            /\ audio_files[AudioFileName(index)] = NoFile]_vars

C6_Witness ==
    /\ pc = "transcribe_audio"
    /\ calls[index]["extract"] = 0
    /\ audio_file_path = audio_file_path_of(index)
    /\ audio_files[AudioFileName(index)] = audio_files0[AudioFileName(index)]

\* C7: with any of the three settings absent the process does nothing but stop
\* with a fatal startup error and a non-zero exit code: no makedirs, no search
\* request, no video processed.
C7_StartupCredentialCheck ==
    (~environ.GROQ_API_KEY \/ ~environ.YT_API_KEY \/ ~environ.CHANNEL_ID) =>
        /\ pc \in {"startup", "exit"}
        /\ pc = "exit" => (status = "FatalStartup" /\ exit_code # 0)
        /\ run_calls.makedirs = 0
        /\ run_calls.search = 0
        /\ passed = <<>>

\* C8: once a search request of the run has failed, on whichever page, the
\* process has exited with a non-zero code, no video was handed to the per-video
\* step, no per-video call was made and no file was created or changed.
C8_CatalogFailureFatal ==
    run_calls.search_errors > 0 =>
        /\ pc = "exit"
        /\ status = "FatalCatalog"
        /\ exit_code # 0
        /\ passed = <<>>
        /\ \A k \in Indices : calls[k] = NoCalls /\ outcome[k] = "none"
        /\ audio_files = audio_files0
        /\ transcriptions = transcriptions0

C8_Witness ==
    /\ run_calls.search_errors > 0
    /\ run_calls.search > 1
    /\ Len(video_ids) > 0
    /\ \E k \in Indices : transcriptions[OutputName(k)] = NoFile

AllowedExtension(inp) == inp.stem # <<>> /\ inp.ext \in AllowedExts

\* C9 as stated: with an extension outside the allow-list (case ignored) the call
\* raises the unsupported-format error without opening the file or asking the
\* service; with an allowed one the service is asked exactly once.
C9_ExactlyOnePost ==
    t_result # NotCalled =>
        IF AllowedExtension(t_input)
        THEN t_result.posts = 1
        ELSE t_result.raised = "ValueError" /\ t_result.opened = 0 /\ t_result.posts = 0

\* C9 as amended: with an extension outside the allow-list (case ignored) the
\* call raises the unsupported-format error without opening the file or asking
\* the service; with an allowed one the file is opened, and the service is asked
\* exactly once if the file could be opened and not at all if it could not.
C9_FormatValidation ==
    t_result # NotCalled =>
        IF AllowedExtension(t_input)
        THEN /\ t_result.raised # "ValueError"
             /\ t_result.opened = 1
             /\ t_result.posts = (IF t_input.content = NoFile THEN 0 ELSE 1)
        ELSE t_result.raised = "ValueError" /\ t_result.opened = 0 /\ t_result.posts = 0

C9_Witness ==
    /\ t_result.raised = "ValueError"
    /\ t_input.stem = <<"a">>
    /\ t_input.ext = <<".", "t", "x", "t">>
    /\ t_input.content # NoFile

\* C10: a video whose details lookup answers no item is skipped: the details
\* call is the only call made for it, no file of its index is created or
\* changed, and the loop goes on to the next catalog entry under the next index
\* (or ends normally after the last).
C10_NotFoundSkip ==
    \A k \in Indices :
        seen[k].details = "not_found" =>
            /\ outcome[k] = "not_found"
            /\ calls[k] = OnlyDetails
            /\ FilesUntouched(k)
            /\ PassedInOrder
            /\ IF k < Len(video_ids)
               THEN index > k /\ (pc = "exit" => outcome[k + 1] # "none")
               ELSE pc = "exit" /\ status = "ok" /\ exit_code = 0

C10_Witness ==
    \E k \in Indices :
        /\ seen[k].details = "not_found"
        /\ k < Len(video_ids)
        /\ outcome[k + 1] = "saved"
        /\ passed[k + 1] = [index |-> k + 1, video_id |-> video_ids[k + 1]]

\* C11: for every index of a run: the extractor, the speech-to-text request, the
\* LLM call and the write each happen at most once; the extractor runs only after
\* the output file was found absent and the caption listing held no manual
\* track; the speech-to-text request is made only with the path download_audio
\* returned; the LLM call only with the text transcribe_audio returned; the write
\* only with the completion the LLM call returned.
C11_StageOrdering ==
    /\ \A k \in Indices :
        /\ \A c \in {"extract", "stt", "llm", "write"} : calls[k][c] <= 1
        /\ (calls[k]["extract"] > 0 \/ calls[k]["stt"] > 0) =>
              /\ seen[k].details = "found"
              /\ transcriptions0[OutputName(k)] = NoFile
              /\ seen[k].captions = "no manual"
        /\ calls[k]["stt"] > 0 => audio_files[AudioFileName(k)] # NoFile
        /\ calls[k]["llm"] > 0 =>
              (calls[k]["stt"] = 1 /\ outcome[k] # "transcription_failed")
        /\ calls[k]["write"] > 0 => (calls[k]["llm"] = 1 /\ outcome[k] # "format_error")
    /\ pc = "download_audio" =>
          /\ transcriptions[OutputName(index)] = NoFile
          /\ seen[index].captions = "no manual"
    /\ pc = "transcribe_audio" => audio_file_path = audio_file_path_of(index)
    /\ pc = "format_transcription" =>
          /\ calls[index]["stt"] = 1
          /\ transcription = Whisper(audio_files[AudioFileName(index)])
    /\ pc = "write" =>
          /\ calls[index]["llm"] = 1
          /\ formatted_transcription = Llm(Prompt(transcription))

C11_Witness ==
    \E k \in Indices :
        /\ outcome[k] = "saved"
        /\ calls[k] = [c \in CallNames |-> 1]

MidPipelineFailures == {"audio_failed", "transcription_failed"}

\* C12: a video whose audio acquisition returned None or whose transcription
\* failed has no output file and no write in that run, and after a transcription
\* failure its audio file is on disk; the next run starts from those files; and a
\* run that starts with the audio file of index k and without its output file
\* does not skip k at the output-exists check, never runs the extractor for k and
\* reaches transcribe_audio with the file as it was.
C12_Retryable ==
    /\ [](\A k \in Indices :
            outcome[k] \in MidPipelineFailures =>
                /\ transcriptions[OutputName(k)] = NoFile
                /\ calls[k]["llm"] = 0
                /\ calls[k]["write"] = 0
                /\ outcome[k] = "transcription_failed" =>
                       audio_files[AudioFileName(k)] # NoFile)
    /\ [][\A k \in Indices :
            (pc = "exit" /\ pc' = "startup" /\ outcome[k] \in MidPipelineFailures) =>
                /\ transcriptions0'[OutputName(k)] = NoFile
                /\ outcome[k] = "transcription_failed" =>
                       /\ audio_files0'[AudioFileName(k)] = audio_files[AudioFileName(k)]
                       /\ audio_files0'[AudioFileName(k)] # NoFile]_vars
    /\ [](\A k \in Indices :
            (transcriptions0[OutputName(k)] = NoFile
                /\ audio_files0[AudioFileName(k)] # NoFile) =>
                /\ outcome[k] # "output_exists"
                /\ calls[k]["extract"] = 0
                /\ audio_files[AudioFileName(k)] = audio_files0[AudioFileName(k)]
                /\ outcome[k] # "audio_failed")

C12_Witness ==
    \E k \in Indices :
        /\ audio_files0[AudioFileName(k)] # NoFile
        /\ transcriptions0[OutputName(k)] = NoFile
        /\ calls[k]["extract"] = 0
        /\ calls[k]["stt"] = 1
        /\ outcome[k] = "transcription_failed"

\* C13: when the LLM call fails for video k the exception ends the process
\* (non-zero exit): nothing was written for index k, its audio file is on disk,
\* and no later video has been handed to the per-video step.
C13_FormattingUnhandled ==
    \A k \in Indices :
        outcome[k] = "format_error" =>
            /\ pc = "exit"
            /\ status = "Unhandled"
            /\ exit_code # 0
            /\ calls[k]["write"] = 0
            /\ transcriptions[OutputName(k)] = NoFile
            /\ audio_files[AudioFileName(k)] # NoFile
            /\ Len(passed) = k
            /\ \A j \in Indices : j > k => (outcome[j] = "none" /\ calls[j] = NoCalls)

C13_Witness ==
    \E k \in Indices :
        /\ outcome[k] = "format_error"
        /\ k < Len(video_ids)
        /\ audio_files0[AudioFileName(k)] = NoFile

\* C14: when opening or writing the output file of video k fails, the write was
\* tried once, no complete file is left, no exception ends the process there, and
\* the loop goes on to the next catalog entry (or ends normally after the last).
C14_WriteFailure ==
    \A k \in Indices :
        outcome[k] = "write_failed" =>
            /\ calls[k]["write"] = 1
            /\ transcriptions[OutputName(k)] \in {NoFile, Truncated}
            /\ IF k < Len(video_ids)
               THEN index > k /\ (pc = "exit" => outcome[k + 1] # "none")
               ELSE pc = "exit" /\ status = "ok" /\ exit_code = 0

C14_Witness ==
    \E k \in Indices :
        /\ outcome[k] = "write_failed"
        /\ transcriptions[OutputName(k)] = NoFile
        /\ k < Len(video_ids)
        /\ outcome[k + 1] = "saved"

\* the positions of the tracks whose kind is not "ASR"
ManualAt(items) == {i \in DOMAIN items : items[i].snippet.trackKind # "ASR"}
\* C15: for every list of caption tracks the answer is True exactly when some
\* track's kind is not "ASR": False for the empty list and for lists of ASR
\* tracks only, True wherever in the list the manual track stands.
C15_ManualCaptionDetection ==
    /\ c_result \in {"not called", "True", "False"}
    /\ c_result # "not called" =>
          /\ c_result = "True" <=> ManualAt(c_items) # {}
          /\ c_items = <<>> => c_result = "False"
C15_Witness ==
    /\ c_result = "True"
    /\ Len(c_items) = MaxCaptionList
    /\ ManualAt(c_items) = {MaxCaptionList}

\* Index k was handed to process_video with a video other than the one whose
\* audio the run found as audio_files/<k>.mp3, with no transcriptions/<k>.md,
\* and the video has metadata and no manual caption.
OtherVideosAudio(k) ==
    /\ k <= Len(passed)
    /\ audio_files0[AudioFileName(k)] # NoFile
    /\ audio_files0[AudioFileName(k)] # Audio(passed[k].video_id)
    /\ transcriptions0[OutputName(k)] = NoFile
    /\ seen[k].details = "found"
    /\ seen[k].captions = "no manual"

\* C16: whenever a different video holds the index of a cached audio file, the
\* extractor is not invoked and the cached file stays as it is; it is the
\* cached audio that is transcribed, its transcript that is formatted, and,
\* when the video's processing ends with the output saved, its formatted
\* transcript that is in transcriptions/<k>.md, not that of the video now at
\* k; when a step fails no complete output file is left.
C16_AudioBoundToIndex ==
    \A k \in Indices :
        OtherVideosAudio(k) =>
            /\ calls[k]["extract"] = 0
            /\ audio_files[AudioFileName(k)] = audio_files0[AudioFileName(k)]
            /\ outcome[k] \in {"none", "transcription_failed", "format_error",
                                "write_failed", "saved"}
            /\ (index = k /\ pc = "format_transcription") =>
                  transcription = Whisper(audio_files0[AudioFileName(k)])
            /\ (index = k /\ pc = "write") =>
                  formatted_transcription =
                      Llm(Prompt(Whisper(audio_files0[AudioFileName(k)])))
            /\ outcome[k] = "saved" =>
                  transcriptions[OutputName(k)] =
                      Llm(Prompt(Whisper(audio_files0[AudioFileName(k)])))
            /\ outcome[k] \in {"none", "transcription_failed", "format_error"} =>
                  transcriptions[OutputName(k)] = NoFile
            /\ outcome[k] = "write_failed" =>
                  transcriptions[OutputName(k)] \in {NoFile, Truncated}
C16_Witness ==
    \E k \in Indices :
        /\ OtherVideosAudio(k)
        /\ passed[k].video_id = "vB"
        /\ audio_files0[AudioFileName(k)] = Audio("vA")
        /\ outcome[k] = "saved"
        /\ transcriptions[OutputName(k)] = <<"markdown", "vA">>

\* Index k was handed to process_video with a video that an earlier run
\* processed under another index j (transcriptions/<j>.md holds its
\* transcript) and not under k.
Markdown(video_id) == Llm(Prompt(Whisper(Audio(video_id))))
Moved(k) ==
    /\ k <= Len(passed)
    /\ transcriptions0[OutputName(k)] # Markdown(passed[k].video_id)
    /\ \E j \in Indices \ {k} :
          transcriptions0[OutputName(j)] = Markdown(passed[k].video_id)
PipelineCalls == {"stt", "llm", "write"}

\* C17 as stated: a previously processed video that now holds a new index, has
\* metadata and no manual caption, is processed again under that index: it is
\* not skipped, and its transcription, formatting and write are attempted
\* unless an earlier step failed.
C17_AlwaysReprocessed ==
    \A k \in Indices :
        (Moved(k) /\ seen[k].details = "found" /\ outcome[k] # "none") =>
            /\ outcome[k] # "output_exists"
            /\ seen[k].captions = "no manual" =>
                  outcome[k] \in {"audio_failed", "transcription_failed",
                                  "format_error", "write_failed", "saved"}

\* C17 (amended): a previously processed video that now holds a new index k is
\* processed again only if transcriptions/<k>.md did not exist when the run
\* started. If it existed (another video's output under that index), the
\* video is skipped after its metadata fetch and the file stays as it was; if
\* it did not, the video is not skipped, and once saved it has gone through
\* transcription, formatting and write under k.
C17_ReprocessedIfAbsent ==
    \A k \in Indices :
        Moved(k) =>
            /\ transcriptions0[OutputName(k)] # NoFile =>
                  /\ outcome[k] \in {"none", "details_error", "not_found", "output_exists"}
                  /\ \A c \in PipelineCalls \cup {"captions", "extract"} : calls[k][c] = 0
                  /\ transcriptions[OutputName(k)] = transcriptions0[OutputName(k)]
            /\ transcriptions0[OutputName(k)] = NoFile =>
                  /\ outcome[k] # "output_exists"
                  /\ (seen[k].captions = "no manual" /\ outcome[k] # "none") =>
                        outcome[k] \in {"audio_failed", "transcription_failed",
                                        "format_error", "write_failed", "saved"}
                  /\ outcome[k] = "saved" =>
                        /\ \A c \in PipelineCalls : calls[k][c] = 1
                        /\ transcriptions[OutputName(k)] =
                               Llm(Prompt(Whisper(audio_files[AudioFileName(k)])))
\* A new video came first: it is skipped at index 1, whose output file is the
\* older video's, and the older video is processed again at its new index.
C17_Witness ==
    \E k \in Indices \ {1} :
        /\ Moved(k)
        /\ transcriptions0[OutputName(1)] = Markdown(passed[k].video_id)
        /\ passed[1].video_id # passed[k].video_id
        /\ outcome[1] = "output_exists"
        /\ transcriptions0[OutputName(k)] = NoFile
        /\ outcome[k] = "saved"
        /\ transcriptions[OutputName(k)] = Markdown(passed[k].video_id)

\* the steps of process_video after the output-exists check
AfterExistsCheck == {"check_for_transcription", "download_audio", "transcribe_audio",
                     "format_transcription", "write"}

\* C18: no step of any run removes or changes an audio or output file that
\* exists; audio_files/<k>.mp3 is written only by the extractor in a
\* download_audio call that found it absent; transcriptions/<k>.md is opened
\* for writing only for the video whose exists check found it absent, and is
\* still absent then; an output file present when a run starts is the same
\* until the run ends.
C18_ArtifactsOnlyGrow ==
    /\ [][\A n \in DOMAIN audio_files :
             audio_files[n] # NoFile => audio_files'[n] = audio_files[n]]_vars
    /\ [][\A n \in DOMAIN transcriptions :
             transcriptions[n] # NoFile => transcriptions'[n] = transcriptions[n]]_vars
    /\ [][audio_files' # audio_files =>
             /\ pc = "download_audio"
             /\ audio_files[AudioFileName(index)] = NoFile
             /\ calls'[index]["extract"] = calls[index]["extract"] + 1
             /\ \A n \in DOMAIN audio_files \ {AudioFileName(index)} :
                   audio_files'[n] = audio_files[n]]_vars
    /\ [][(\/ transcriptions' # transcriptions
            \/ \E k \in Indices : calls'[k]["write"] > calls[k]["write"]) =>
             /\ pc = "write"
             /\ calls'[index]["write"] = calls[index]["write"] + 1
             /\ transcriptions[OutputName(index)] = NoFile
             /\ transcriptions0[OutputName(index)] = NoFile
             /\ \A n \in DOMAIN transcriptions \ {OutputName(index)} :
                   transcriptions'[n] = transcriptions[n]]_vars
    /\ [](pc \in AfterExistsCheck => transcriptions[OutputName(index)] = NoFile)
    /\ [](\A k \in Indices :
            /\ transcriptions0[OutputName(k)] # NoFile =>
                  transcriptions[OutputName(k)] = transcriptions0[OutputName(k)]
            /\ audio_files0[AudioFileName(k)] # NoFile =>
                  audio_files[AudioFileName(k)] = audio_files0[AudioFileName(k)])
\* A run ended having kept one output file it found and created another,
\* together with its audio file.
C18_Witness ==
    /\ pc = "exit"
    /\ \E k, j \in Indices :
        /\ transcriptions0[OutputName(k)] # NoFile
        /\ outcome[k] = "output_exists"
        /\ transcriptions0[OutputName(j)] = NoFile
        /\ audio_files0[AudioFileName(j)] = NoFile
        /\ outcome[j] = "saved"
        /\ audio_files[AudioFileName(j)] # NoFile
        /\ transcriptions[OutputName(j)] # NoFile

\* the video at index k has metadata and no manual caption
Eligible(k) == AttrAt(k) = "ok"
AllDone == \A k \in Indices : Eligible(k) => transcriptions[OutputName(k)] # NoFile
StartedDone == \A k \in Indices : Eligible(k) => transcriptions0[OutputName(k)] # NoFile

\* C19: over a fixed channel, with runs repeated and every call that is made
\* again and again succeeding again and again, every video with metadata and
\* no manual caption eventually has transcriptions/<index>.md, for good; a run
\* that starts with all these files makes no extraction, transcription or LLM
\* call, writes nothing and creates no file.
C19_Convergence ==
    /\ <>[]AllDone
    /\ [](StartedDone =>
            /\ \A k \in Indices :
                  \A c \in {"extract", "stt", "llm", "write"} : calls[k][c] = 0
            /\ audio_files = audio_files0
            /\ transcriptions = transcriptions0)
\* A run over a full catalog of eligible videos that found every output file
\* and skipped every video, after a run that had to create them.
C19_Witness ==
    /\ Len(world.catalog) = MaxVideos
    /\ \A k \in Indices : Eligible(k) /\ outcome[k] = "output_exists"
    /\ StartedDone
    /\ pc = "exit"
    /\ status = "ok"

====
